---- MODULE Spec2Model ----
(***************************************************************************)
(* A model of holocron.ext.generators.blog.Blog: generate(documents)       *)
(* extracts the posts, then writes the index page, one page per tag and    *)
(* the Atom feed.  The state is the input documents, the configuration,    *)
(* the file system under the output directory, and the locals of the       *)
(* generate call in progress.                                              *)
(***************************************************************************)
EXTENDS Integers, Sequences, FiniteSets

\* ------------------------------------------------------------------ bounds
\* the longest list of documents handed to generate
MaxDocs == 3
\* `created` timestamps are drawn from 1..MaxCreated
MaxCreated == 2

VARIABLES
    documents,  \* the argument of generate: a sequence of document records
    conf,       \* self.app.conf: the generators.blog.* settings
    hashOrder,  \* the order in which this process's dict iterates over tag keys
    builds,     \* how many times the orchestrator calls generate
    dirs,       \* the directories that exist (resolved paths)
    files,      \* the files that exist: resolved path -> content
    clock,      \* datetime.utcnow(), whole seconds
    calls,      \* the number of generate calls started
    pc,         \* where the current generate call stands
    posts,      \* generate's local `posts`: references (indices) into documents
    tags,       \* tags()'s local dict: tag -> list of post references
    pending,    \* the keys the `for tag in tags` loop has still to visit
    exc,        \* the exception that left generate, "none" if none
    written,    \* the writes of the current call, in order: [step, path, content]
    prev,       \* the files as they were when the current call started
    prevExc     \* exc of the previous call

vars == <<documents, conf, hashOrder, builds, dirs, files, clock, calls, pc,
          posts, tags, pending, exc, written, prev, prevExc>>

\* ------------------------------------------------------------------ paths
\* A path is a sequence of components.  self._output (conf['paths.output']).
Output == <<"out">>

\* os.path.join of a path and a relative path
Join(a, b) == a \o b

\* os.path.dirname
Dirname(p) == SubSeq(p, 1, Len(p) - 1)

\* The file system's resolution of a path: ".." steps back to the parent.
RECURSIVE Resolve(_)
Resolve(p) ==
    IF p = <<>> THEN <<>>
    ELSE LET front == Resolve(SubSeq(p, 1, Len(p) - 1))
             last  == p[Len(p)]
         IN  IF last = ".."
             THEN (IF front = <<>> THEN <<>> ELSE SubSeq(front, 1, Len(front) - 1))
             ELSE Append(front, last)

\* every non-empty prefix of a path
Prefixes(p) == {SubSeq(p, 1, k) : k \in 1..Len(p)}

\* holocron.utils.mkdir(path): the directory and its missing ancestors exist
\* afterwards; an existing directory is not an error.
mkdir(path, ds) == ds \cup {Resolve(q) : q \in Prefixes(path)}

\* mkdir cannot make a directory where a file is
MkdirOk(path, fs) == \A q \in Prefixes(path) : Resolve(q) \notin DOMAIN fs

\* open(save_as, 'w') succeeds when the parent directory exists and the path
\* is not itself a directory
CanOpen(save_as, ds) ==
    /\ Resolve(Dirname(save_as)) \in ds
    /\ Resolve(save_as) \notin ds

\* the exception of an open(save_as, 'w') that cannot succeed
OpenError(save_as, ds) ==
    IF Resolve(Dirname(save_as)) \notin ds THEN "FileNotFoundError"
    ELSE "IsADirectoryError"

\* the exception of mkdir(path) followed by open(save_as, 'w'), "none" if
\* both succeed
WriteError(path, save_as) ==
    IF ~MkdirOk(path, files) THEN "FileExistsError"
    ELSE IF ~CanOpen(save_as, mkdir(path, dirs)) THEN OpenError(save_as, mkdir(path, dirs))
    ELSE "none"

\* the file system after the file at path p holds content c
Put(fs, p, c) == [q \in DOMAIN fs \cup {p} |-> IF q = p THEN c ELSE fs[q]]

\* ---------------------------------------------------------------- content
\* What open(.., 'w') leaves before anything is written to the file.
EmptyFile == [template |-> "", posts |-> <<>>, date |-> 0]

\* self._template.render(posts=.., sitename=..): the document-list template
\* over the posts it is given, in their order
RenderList(ps) == [template |-> "document-list.html", posts |-> ps, date |-> 0]

\* self.feed_template.render(documents=.., credentials=..): one <entry> per
\* document, in order, and <updated> from credentials.date
RenderFeed(ps, date) == [template |-> "atom", posts |-> ps, date |-> date]

\* ------------------------------------------------------------ extract_posts
\* (a selection that lets every document through)
IsPostTrue(d) == TRUE
\* isinstance(doc, Post)
IsPost(d) == d.isPost

\* The references of the documents that are posts, in input order.
PostRefs(docs) == SelectSeq([i \in 1..Len(docs) |-> i], LAMBDA i : IsPost(docs[i]))

\* (an insertion that puts x before its ties, as an ascending sort that is
\* then reversed does)
InsertBeforeTies(docs, s, x) ==
    LET k == Cardinality({i \in 1..Len(s) : docs[s[i]].created > docs[x].created})
    IN  SubSeq(s, 1, k) \o <<x>> \o SubSeq(s, k + 1, Len(s))
\* One step of a stable descending sort: x goes behind every element whose
\* key is at least its own.
Insert(docs, s, x) ==
    LET k == Cardinality({i \in 1..Len(s) : docs[s[i]].created >= docs[x].created})
    IN  SubSeq(s, 1, k) \o <<x>> \o SubSeq(s, k + 1, Len(s))

\* sorted(refs, key=lambda d: d.created, reverse=True): Python's sort is
\* stable, also under reverse=True, which determines the result.
RECURSIVE sorted(_, _)
sorted(docs, refs) ==
    IF refs = <<>> THEN <<>>
    ELSE Insert(docs, sorted(docs, SubSeq(refs, 1, Len(refs) - 1)), refs[Len(refs)])

extract_posts(docs) == sorted(docs, PostRefs(docs))

\* --------------------------------------------------------------------- tags
\* getattr(post, 'tags', [])
GetTags(d) == IF d.hasTags THEN d.tags ELSE <<>>

\* defaultdict(list)
EmptyDict == [t \in {} |-> <<>>]

\* (tags[tag] = [post])
AppendReplace(dict, tag, post) ==
    [t \in DOMAIN dict \cup {tag} |-> IF t = tag THEN <<post>> ELSE dict[t]]
\* (tags[tag].insert(0, post))
AppendFront(dict, tag, post) ==
    [t \in DOMAIN dict \cup {tag} |->
        IF t = tag
        THEN (IF tag \in DOMAIN dict THEN <<post>> \o dict[tag] ELSE <<post>>)
        ELSE dict[t]]
\* (if post not in tags[tag]: tags[tag].append(post))
AppendOnce(dict, tag, post) ==
    [t \in DOMAIN dict \cup {tag} |->
        IF t = tag
        THEN (IF tag \in DOMAIN dict
              THEN (IF \E i \in 1..Len(dict[tag]) : dict[tag][i] = post
                    THEN dict[tag] ELSE Append(dict[tag], post))
              ELSE <<post>>)
        ELSE dict[t]]
\* tags[tag].append(post), tags being a defaultdict(list)
AppendTo(dict, tag, post) ==
    [t \in DOMAIN dict \cup {tag} |->
        IF t = tag
        THEN (IF tag \in DOMAIN dict THEN Append(dict[tag], post) ELSE <<post>>)
        ELSE dict[t]]

\* for tag in getattr(post, 'tags', []): tags[tag].append(post)
RECURSIVE AddPost(_, _, _)
AddPost(dict, post, taglist) ==
    IF taglist = <<>> THEN dict
    ELSE AddPost(AppendTo(dict, Head(taglist), post), post, Tail(taglist))

\* for post in posts: ...
RECURSIVE BuildTags(_, _, _)
BuildTags(docs, dict, ps) ==
    IF ps = <<>> THEN dict
    ELSE BuildTags(docs, AddPost(dict, Head(ps), GetTags(docs[Head(ps)])), Tail(ps))

\* `for tag in tags`: the keys of the dict in this process's iteration order
Keys(dict) == SelectSeq(hashOrder, LAMBDA t : t \in DOMAIN dict)

\* os.path.join(self._output, conf['generators.blog.tags.output'], tag)
TagDir(tag) == Join(Join(Output, conf.tags_output), <<tag>>)
TagPage(tag) == Join(TagDir(tag), conf.tags_save_as)

\* --------------------------------------------------------------------- feed
\* (posts, not sliced)
SliceAll(s, n) == s
\* posts[:posts_number]
Slice(s, n) ==
    IF n >= 0
    THEN SubSeq(s, 1, IF n < Len(s) THEN n ELSE Len(s))
    ELSE SubSeq(s, 1, IF Len(s) + n > 0 THEN Len(s) + n ELSE 0)

IndexPath == Join(Output, conf.index_save_as)
FeedPath == Join(Output, conf.feed_save_as)

\* ------------------------------------------------------------------ actions
\* (a loop over the tags that catches the exception and goes on)
AfterFailureRetry(step) == IF step = "tagpage" THEN "tagpage" ELSE "raised"
\* An exception in a step: nothing in tags() or generate() catches it.
AfterFailure(step) == "raised"

\* the record of a write: the step, the file written and what was rendered
Log(step, path, content) ==
    Append(written, [step |-> step, path |-> Resolve(path), content |-> content])

\* generate(documents) is called: posts = self.extract_posts(documents).
\* Time has passed since the call before; the history variables are reset.
Generate ==
    /\ pc \in {"idle", "done", "raised"}
    /\ calls < builds
    /\ calls' = calls + 1
    /\ clock' = clock + 1
    /\ posts' = extract_posts(documents)
    /\ pc' = "index"
    /\ exc' = "none"
    /\ prevExc' = exc
    /\ prev' = files
    /\ written' = <<>>
    /\ UNCHANGED <<documents, conf, hashOrder, builds, dirs, files, tags, pending>>

\* (an index that makes its directory, as tags and feed do)
IndexMkdir ==
    /\ pc = "index"
    /\ dirs' = mkdir(Dirname(IndexPath), dirs)
    /\ files' = Put(files, Resolve(IndexPath), RenderList(posts))
    /\ written' = Log("index", IndexPath, RenderList(posts))
    /\ pc' = "tags"
    /\ UNCHANGED <<documents, conf, hashOrder, builds, clock, calls, posts,
                   tags, pending, exc, prev, prevExc>>
\* self.index(posts)
Index ==
    /\ pc = "index"
    /\ IF CanOpen(IndexPath, dirs)
       THEN /\ files' = Put(files, Resolve(IndexPath), RenderList(posts))
            /\ written' = Log("index", IndexPath, RenderList(posts))
            /\ pc' = "tags"
            /\ exc' = exc
       ELSE /\ exc' = OpenError(IndexPath, dirs)
            /\ pc' = AfterFailure("index")
            /\ UNCHANGED <<files, written>>
    /\ UNCHANGED <<documents, conf, hashOrder, builds, dirs, clock, calls,
                   posts, tags, pending, prev, prevExc>>

\* (a dict that is kept from one call to the next)
TagsStale ==
    /\ pc = "tags"
    /\ tags' = BuildTags(documents, tags, posts)
    /\ pending' = Keys(tags')
    /\ pc' = IF pending' = <<>> THEN "feed" ELSE "tagpage"
    /\ UNCHANGED <<documents, conf, hashOrder, builds, dirs, files, clock,
                   calls, posts, exc, written, prev, prevExc>>
\* self.tags(posts), up to the loop over the tags: the dict is built
Tags ==
    /\ pc = "tags"
    /\ tags' = BuildTags(documents, EmptyDict, posts)
    /\ pending' = Keys(tags')
    /\ pc' = IF pending' = <<>> THEN "feed" ELSE "tagpage"
    /\ UNCHANGED <<documents, conf, hashOrder, builds, dirs, files, clock,
                   calls, posts, exc, written, prev, prevExc>>

\* one turn of `for tag in tags`: mkdir(path), then the page is written
TagPageStep ==
    /\ pc = "tagpage"
    /\ pending # <<>>
    /\ LET tag == Head(pending)
           path == TagDir(tag)
           save_as == TagPage(tag)
       IN  IF WriteError(path, save_as) = "none"
           THEN /\ dirs' = mkdir(path, dirs)
                /\ files' = Put(files, Resolve(save_as), RenderList(tags[tag]))
                /\ written' = Log("tags", save_as, RenderList(tags[tag]))
                /\ pending' = Tail(pending)
                /\ pc' = IF Tail(pending) = <<>> THEN "feed" ELSE "tagpage"
                /\ exc' = exc
           ELSE /\ exc' = WriteError(path, save_as)
                /\ pc' = AfterFailure("tagpage")
                /\ UNCHANGED <<dirs, files, written, pending>>
    /\ UNCHANGED <<documents, conf, hashOrder, builds, clock, calls, posts,
                   tags, prev, prevExc>>

\* self.feed(posts)
Feed ==
    /\ pc = "feed"
    /\ LET path == Dirname(FeedPath)
       IN  IF WriteError(path, FeedPath) = "none"
           THEN /\ dirs' = mkdir(path, dirs)
                /\ files' = Put(files, Resolve(FeedPath),
                                RenderFeed(Slice(posts, conf.posts_number), clock))
                /\ written' = Log("feed", FeedPath,
                                     RenderFeed(Slice(posts, conf.posts_number), clock))
                /\ pc' = "done"
                /\ exc' = exc
           ELSE /\ exc' = WriteError(path, FeedPath)
                /\ pc' = AfterFailure("feed")
                /\ UNCHANGED <<dirs, files, written>>
    /\ UNCHANGED <<documents, conf, hashOrder, builds, clock, calls, posts,
                   tags, pending, prev, prevExc>>

\* The directory and the file the step at hand is about to write.
StepDir ==
    IF pc = "index" THEN Dirname(IndexPath)
    ELSE IF pc = "tagpage" THEN TagDir(Head(pending))
    ELSE Dirname(FeedPath)
StepFile ==
    IF pc = "index" THEN IndexPath
    ELSE IF pc = "tagpage" THEN TagPage(Head(pending))
    ELSE FeedPath

\* The environment fails the step at hand (permission denied, disk full, a
\* template error): at mkdir, at open (tags and feed have made the directory
\* by then), or at render/write, after open has created or truncated the file.
Raise ==
    /\ pc \in {"index", "tagpage", "feed"}
    /\ \E at \in {"mkdir", "open", "write"} :
          /\ at = "mkdir" => pc # "index"
          /\ at = "mkdir" => UNCHANGED <<dirs, files>>
          /\ at = "open" =>
                /\ dirs' = IF pc = "index" THEN dirs ELSE mkdir(StepDir, dirs)
                /\ pc # "index" => MkdirOk(StepDir, files)
                /\ files' = files
          /\ at = "write" =>
                /\ dirs' = IF pc = "index" THEN dirs ELSE mkdir(StepDir, dirs)
                /\ pc # "index" => MkdirOk(StepDir, files)
                /\ CanOpen(StepFile, dirs')
                /\ files' = Put(files, Resolve(StepFile), EmptyFile)
          /\ exc' = IF at = "write" THEN "RenderError" ELSE "PermissionError"
    /\ pc' = AfterFailure(pc)
    /\ UNCHANGED <<documents, conf, hashOrder, builds, clock, calls, posts,
                   tags, pending, written, prev, prevExc>>

Next == Generate \/ Index \/ Tags \/ TagPageStep \/ Feed \/ Raise


\* ------------------------------------------------------------------- inputs
TagNames == {"go", "py", ".."}

\* the orders a dict may iterate its keys in
Orders == {o \in [1..3 -> TagNames] : \A i, j \in 1..3 : o[i] = o[j] => i = j}

Doc(p, c, h, t) == [isPost |-> p, created |-> c, hasTags |-> h, tags |-> t]

DocLists(options) == UNION {[1..n -> options] : n \in 0..MaxDocs}

\* the settings under generators.blog; tags.output and tags.save_as are at
\* their usual values
Conf(i, f, n) ==
    [index_save_as |-> i, feed_save_as |-> f, posts_number |-> n,
     tags_output |-> <<"tags">>, tags_save_as |-> <<"index.html">>]

Start(docSet, confSet, dirSet, orderSet, buildSet) ==
    /\ documents \in docSet
    /\ conf \in confSet
    /\ hashOrder \in orderSet
    /\ builds \in buildSet
    /\ dirs \in dirSet
    /\ files = [p \in {} |-> EmptyFile]
    /\ clock = 0
    /\ calls = 0
    /\ pc = "idle"
    /\ posts = <<>>
    /\ tags = EmptyDict
    /\ pending = <<>>
    /\ exc = "none"
    /\ written = <<>>
    /\ prev = [p \in {} |-> EmptyFile]
    /\ prevExc = "none"

\* Posts and other documents of every date, tagged or not, and every
\* posts_number from -1 to beyond the number of documents; one build into an
\* existing output directory.
Init ==
    Start(DocLists({Doc(p, c, TRUE, t) : p \in BOOLEAN, c \in 1..MaxCreated,
                                         t \in {<<>>, <<"go">>}}
                   \ {Doc(FALSE, c, TRUE, <<>>) : c \in 1..MaxCreated}),
          {Conf(<<"index.html">>, <<"feed.xml">>, n) : n \in -1..(MaxDocs + 1)},
          {{Output}},
          {<<"go", "py", "..">>},
          {1})

Spec == Init /\ [][Next]_vars

\* Posts of every date whose tag list is missing, empty, of one tag, of two
\* tags or names a tag twice; one build into an existing output directory.
InitTags ==
    Start(DocLists({Doc(TRUE, c, TRUE, t) : c \in 1..MaxCreated,
                        t \in {<<>>, <<"go">>, <<"py", "go">>, <<"go", "go">>}}
                   \cup {Doc(TRUE, c, FALSE, <<>>) : c \in 1..MaxCreated}),
          {Conf(<<"index.html">>, <<"feed.xml">>, 2)},
          {{Output}},
          {o \in Orders : o[3] = ".."},
          {1})

SpecTags == InitTags /\ [][Next]_vars

\* Every choice of index and feed path, with the output directory missing,
\* empty or holding blog/; tags that are path components, ".." among them;
\* every key order; two builds.
InitFs ==
    Start(DocLists({Doc(TRUE, 1, TRUE, t) :
                        t \in {<<>>, <<"go">>, <<"..">>, <<"go", "..">>}}),
          {Conf(i, f, 2) : i \in {<<"index.html">>, <<"blog", "index.html">>},
                           f \in {<<"feed.xml">>, <<"feeds", "atom.xml">>}},
          {{}, {Output}, {Output, Join(Output, <<"blog">>)}},
          {o \in Orders : o[3] = "py"},
          {2})

SpecFs == InitFs /\ [][Next]_vars

\* ---------------------------------------------------------------- properties
\* the number of times x occurs in the sequence s
Occurs(s, x) == Cardinality({k \in 1..Len(s) : s[k] = x})

\* the place of post reference x in the sorted list
Pos(x) == CHOOSE k \in 1..Len(posts) : posts[k] = x

Created(x) == documents[x].created

\* the current call has built its tag dict
Built == pc \in {"tagpage", "feed", "done"}

Group(t) == IF t \in DOMAIN tags THEN tags[t] ELSE <<>>

\* C1: the result of extract_posts is ordered by `created`, most recent
\* first, and posts of equal `created` keep their relative input order.
SortOrderStable ==
    calls >= 1 =>
        \A i, j \in 1..Len(posts) :
            i < j => /\ Created(posts[i]) >= Created(posts[j])
                     /\ (Created(posts[i]) = Created(posts[j]) => posts[i] < posts[j])

\* a sort that moved two posts of one date before an older post, leaving
\* the two in their input order
SortOrderStableWitness ==
    /\ calls >= 1
    /\ \E i, j \in 1..Len(posts) :
          i < j /\ Created(posts[i]) = Created(posts[j]) /\ posts[i] < posts[j]
    /\ \E i, j \in 1..Len(posts) : i < j /\ posts[i] > posts[j]

\* C2: no document that is not a Post is rendered into the index page, a tag
\* page or the feed, and every Post of the input is in the index list.
OnlyPostsRendered ==
    /\ \A k \in 1..Len(written) :
          \A n \in 1..Len(written[k].content.posts) :
              documents[written[k].content.posts[n]].isPost
    /\ \A k \in 1..Len(written) :
          written[k].step = "index" =>
              \A i \in 1..Len(documents) :
                  documents[i].isPost => Occurs(written[k].content.posts, i) = 1

\* a finished build whose input held a tagged document that is not a post,
\* before a tagged post
OnlyPostsRenderedWitness ==
    /\ pc = "done"
    /\ Len(written) = 3
    /\ \E i, j \in 1..Len(documents) :
          /\ i < j
          /\ ~documents[i].isPost /\ documents[i].tags = <<"go">>
          /\ documents[j].isPost /\ documents[j].tags = <<"go">>

\* C5: for posts_number N >= 0 the feed renders exactly the first
\* min(N, L) posts of the sorted list of length L, in its order; no N makes
\* the feed raise an error of its own.
FeedTakesFirstN ==
    /\ \A k \in 1..Len(written) :
          written[k].step = "feed" /\ conf.posts_number >= 0 =>
              LET n == IF conf.posts_number < Len(posts)
                       THEN conf.posts_number ELSE Len(posts)
              IN  /\ Len(written[k].content.posts) = n
                  /\ \A i \in 1..n : written[k].content.posts[i] = posts[i]
    /\ exc \in {"none", "PermissionError", "RenderError"}

\* a feed written from more posts than posts_number, of different dates
FeedTakesFirstNWitness ==
    /\ pc = "done"
    /\ conf.posts_number >= 1
    /\ Len(posts) > conf.posts_number
    /\ Created(posts[1]) > Created(posts[Len(posts)])
    /\ written[Len(written)].step = "feed"

\* C3: every post is in the group of each of its tags; a tag has a group,
\* and a page, only if a post carries it; posts with a missing or empty tag
\* list make no group and no error.
TagGroupsComplete ==
    /\ Built =>
          /\ \A i \in 1..Len(posts) :
                \A k \in 1..Len(GetTags(documents[posts[i]])) :
                    LET t == GetTags(documents[posts[i]])[k]
                    IN  t \in DOMAIN tags /\ Occurs(tags[t], posts[i]) >= 1
          /\ \A t \in DOMAIN tags :
                \E i \in 1..Len(posts) : Occurs(GetTags(documents[posts[i]]), t) >= 1
          /\ \A k \in 1..Len(written) :
                written[k].step = "tags" =>
                    \E t \in DOMAIN tags :
                        /\ written[k].path = Resolve(TagPage(t))
                        /\ written[k].content = RenderList(tags[t])
    /\ pc \in {"tagpage", "feed"} => exc = "none"
    /\ pc = "done" =>
          \A t \in DOMAIN tags : \E k \in 1..Len(written) :
              written[k].step = "tags" /\ written[k].path = Resolve(TagPage(t))

\* a finished build over a post with two tags, a post with no tag list and a
\* post with an empty one
TagGroupsCompleteWitness ==
    /\ pc = "done"
    /\ \E i \in 1..Len(posts) : documents[posts[i]].tags = <<"py", "go">>
    /\ \E i \in 1..Len(posts) : ~documents[posts[i]].hasTags
    /\ \E i \in 1..Len(posts) :
          documents[posts[i]].hasTags /\ documents[posts[i]].tags = <<>>
    /\ DOMAIN tags = {"go", "py"}

\* C4: the posts of every tag group, as rendered into its page, are in the
\* order of the sorted post list, hence by `created` descending.
TagGroupsKeepOrder ==
    /\ Built =>
          \A t \in DOMAIN tags :
              \A i, j \in 1..Len(tags[t]) :
                  i < j => /\ Pos(tags[t][i]) <= Pos(tags[t][j])
                           /\ Created(tags[t][i]) >= Created(tags[t][j])
    /\ \A k \in 1..Len(written) :
          written[k].step = "tags" =>
              LET g == written[k].content.posts
              IN  \A i, j \in 1..Len(g) :
                      i < j => /\ Pos(g[i]) <= Pos(g[j])
                               /\ Created(g[i]) >= Created(g[j])

\* a page written for a tag of two posts that the sort has swapped
TagGroupsKeepOrderWitness ==
    /\ pc = "done"
    /\ \E k \in 1..Len(written) :
          /\ written[k].step = "tags"
          /\ LET g == written[k].content.posts
             IN  /\ Len(g) >= 2
                 /\ Created(g[1]) > Created(g[Len(g)])
                 /\ g[1] > g[Len(g)]

\* C10: a post occurs in the group of a tag as many times as the tag occurs
\* in the post's tag list, and the group lengths sum to the tag list lengths.
GroupCountsMatch ==
    Built =>
        /\ \A i \in 1..Len(posts) : \A t \in TagNames :
              Occurs(Group(t), posts[i]) = Occurs(GetTags(documents[posts[i]]), t)
        /\ Cardinality(UNION {{<<t, k>> : k \in 1..Len(tags[t])} : t \in DOMAIN tags})
           = Cardinality(UNION {{<<i, k>> : k \in 1..Len(GetTags(documents[posts[i]]))} :
                                  i \in 1..Len(posts)})

\* a post that names a tag twice, and is twice in its group, beside a post
\* that names it once
GroupCountsMatchWitness ==
    /\ pc = "done"
    /\ \E i, j \in 1..Len(posts) :
          /\ documents[posts[i]].tags = <<"go", "go">>
          /\ Occurs(tags["go"], posts[i]) = 2
          /\ documents[posts[j]].tags = <<"py", "go">>
          /\ Occurs(tags["go"], posts[j]) = 1

\* the files with the feed's timestamp left out
NoDate(fs) == [p \in DOMAIN fs |-> [fs[p] EXCEPT !.date = 0]]

\* an exception the environment caused
EnvFault(e) == e \in {"PermissionError", "RenderError"}

\* C6: a second generate with the same documents and configuration leaves
\* the same files with the same contents as the first, the feed's timestamp
\* aside.
SecondBuildSameFiles ==
    /\ calls = 2
    /\ pc \in {"done", "raised"}
    /\ ~EnvFault(exc)
    /\ ~EnvFault(prevExc)
    => NoDate(files) = NoDate(prev)

\* two finished builds of index, tag pages and feed; the feeds differ in
\* their timestamp only
SecondBuildSameFilesWitness ==
    /\ calls = 2
    /\ pc = "done"
    /\ exc = "none"
    /\ prevExc = "none"
    /\ Len(written) >= 4
    /\ files # prev
    /\ \E t \in DOMAIN tags : Len(tags[t]) >= 2

PathsDistinct ==
    \A i, j \in 1..Len(written) : i # j => written[i].path # written[j].path

Rank(step) == IF step = "index" THEN 1 ELSE IF step = "tags" THEN 2 ELSE 3

\* C9: the writes come in the order index, tag pages, feed; an exception
\* ends the call at once: it is not caught, nothing is retried, no later step
\* writes, and no file is removed or, the failed step's own file aside,
\* changed.
FailFast ==
    [][ /\ \A i, j \in 1..Len(written') :
              i < j => /\ Rank(written'[i].step) <= Rank(written'[j].step)
                       /\ written'[i].step = written'[j].step
                              => written'[i].step = "tags"
        /\ Len(written') >= 1 => written'[1].step = "index"
        /\ exc = "none" /\ exc' # "none" =>
              /\ pc' = "raised"
              /\ written' = written
              /\ \A p \in DOMAIN files :
                    /\ p \in DOMAIN files'
                    /\ p # Resolve(StepFile) => files'[p] = files[p]
        /\ exc # "none" =>
              /\ pc = "raised"
              /\ files' = files
              /\ dirs' = dirs
              /\ pc' = "raised" \/ calls' = calls + 1
      ]_vars

\* the first of two tag pages has failed after the index was written: the
\* index is in place, neither tag page nor the feed will be written
FailFastWitness ==
    /\ pc = "raised"
    /\ calls = 1
    /\ exc = "RenderError"
    /\ Len(written) = 1
    /\ Len(pending) = 2
    /\ files[written[1].path] = written[1].content
    /\ Resolve(FeedPath) \notin DOMAIN files
====
